---- MODULE Spec2Model ----
(***************************************************************************)
(* A model of the code-runner sandbox: the Bounded Output Sink             *)
(* (agent/utils.py), the Execution Engine and Isolated Runner              *)
(* (agent/inspector.py) and the Sandbox Orchestrator                       *)
(* (app/services/docker_manager.py).                                       *)
(*                                                                         *)
(* Text is a sequence of character codes.  An Optional[...] field is a     *)
(* sequence of length 0 (None) or 1 (the value).                           *)
(***************************************************************************)
EXTENDS Integers, Sequences, FiniteSets, TLC

\* ------------------------------------------------------------------ bounds
\* Largest capacity a LimitedStream is constructed with in StreamSpec.
MaxCap == 3
\* Longest text handed to one write() call in StreamSpec.
MaxTextLen == 2
\* Most characters handed to write() over the life of one stream in StreamSpec.
MaxWritten == 5
\* Largest timeout a caller supplies (seconds).
MaxTimeout == 4
\* Most statements one user program executes.
MaxStmts == 2
\* Longest time a container takes to reach universal_inspector (seconds).
MaxStartDelay == 1

\* Largest max_vars serialize_variables is called with in SnapshotSpec.
MaxSnapCap == 2

\* ------------------------------------------------------- generic helpers
None == << >>
Some(v) == << v >>

Min(a, b) == IF a <= b THEN a ELSE b

\* "\n"
TEXT_NL == << 10 >>

\* Python's s[:n] for n >= 0: the first n items, or all of s when it is shorter.
Prefix(s, n) == SubSeq(s, 1, Min(n, Len(s)))

\* ------------------------------------------------- agent/utils.py: the sink
\* "\n--- OUTPUT TRUNCATED ---" as character codes.
TRUNCATION_MARK ==
    << 10, 45, 45, 45, 32, 79, 85, 84, 80, 85, 84, 32,
       84, 82, 85, 78, 67, 65, 84, 69, 68, 32, 45, 45, 45 >>

\* LimitedStream.__init__: an empty StringIO buffer, nothing counted.
LimitedStream(limit) ==
    [ buf |-> << >>, limit_chars |-> limit, current_chars |-> 0, truncated |-> FALSE ]

\* A slip in the capacity test: a text that fills the sink exactly is refused.
LimitedStream_write_strict(s, text) ==
    IF s.truncated THEN s
    ELSE IF s.current_chars + Len(text) < s.limit_chars
    THEN [ s EXCEPT !.buf = @ \o text, !.current_chars = @ + Len(text) ]
    ELSE LET remaining == s.limit_chars - s.current_chars
             clipped == IF remaining > 0 THEN Prefix(text, remaining) ELSE << >>
         IN  [ s EXCEPT !.buf = @ \o clipped \o TRUNCATION_MARK,
                        !.current_chars = IF remaining > 0 THEN @ + remaining ELSE @,
                        !.truncated = TRUE ]

\* A slip in the clipping: the overflowing text is stored whole.
LimitedStream_write_unclipped(s, text) ==
    IF s.truncated THEN s
    ELSE IF s.current_chars + Len(text) <= s.limit_chars
    THEN [ s EXCEPT !.buf = @ \o text, !.current_chars = @ + Len(text) ]
    ELSE [ s EXCEPT !.buf = @ \o text \o TRUNCATION_MARK,
                    !.current_chars = s.limit_chars,
                    !.truncated = TRUE ]

\* LimitedStream.write: the stream after write(text).  (The value returned to
\* the caller is always len(text).)
LimitedStream_write(s, text) ==
    IF s.truncated
    THEN s
    ELSE IF s.current_chars + Len(text) <= s.limit_chars
    THEN [ s EXCEPT !.buf = @ \o text, !.current_chars = @ + Len(text) ]
    ELSE LET remaining == s.limit_chars - s.current_chars
             clipped == IF remaining > 0 THEN Prefix(text, remaining) ELSE << >>
         IN  [ s EXCEPT !.buf = @ \o clipped \o TRUNCATION_MARK,
                        !.current_chars = IF remaining > 0 THEN @ + remaining ELSE @,
                        !.truncated = TRUE ]

\* The value write() reports to its caller, on every path.
LimitedStream_write_result(s, text) == Len(text)

\* ------------------------------------------- agent/inspector.py: the values
\* The limit worker_process gives its LimitedStream, the timeout __main__ gives
\* universal_inspector, and serialize_variables' default max_vars.
CAPTURE_LIMIT == 5000
MAIN_TIMEOUT_SECONDS == 5
MAX_VARS == 50

\* Error texts (the traceback lines of <student_code> frames are left out).
ERR_TLE == "Time Limit Exceeded"
ERR_CRASHED == "System Error: Process crashed"
ERR_SYNTAX == "SyntaxError: invalid syntax"
ERR_VALUE == "ValueError: boom"
ERR_SHAPE == "ValueError: shape is not available"

\* text repeated 2^k times.
RECURSIVE Doubled(_, _)
Doubled(text, k) == IF k = 0 THEN text ELSE Doubled(text \o text, k - 1)

\* The error text of raise ValueError("x" * 131072).
ERR_HUGE == "ValueError: " \o Doubled("x", 17)

\* worker_process: the result record as first built.
InitialResult ==
    [ success |-> FALSE, output |-> << >>, error |-> None, truncated |-> FALSE,
      memory_peak_mb |-> Some(0), execution_time |-> Some(0), variables |-> Some({}) ]

\* universal_inspector: the result synthesized when the child outlived the join.
TimeLimitResult(timeout) ==
    [ success |-> FALSE, error |-> Some(ERR_TLE), output |-> << >>, truncated |-> FALSE,
      memory_peak_mb |-> None, execution_time |-> Some(timeout), variables |-> Some({}) ]

\* universal_inspector: the result synthesized when the child left no result.
CrashedResult ==
    [ success |-> FALSE, error |-> Some(ERR_CRASHED), output |-> << >>, truncated |-> FALSE,
      memory_peak_mb |-> None, execution_time |-> None, variables |-> Some({}) ]

\* serialize_variables: the names excluded from the snapshot.
Excluded(name) == Prefix(name, 2) = "__" \/ name \in { "safe_import", "builtins", "sys" }

\* serialize_variables: the bindings it visits, in dict order, up to max_vars.
Visited(locals, max_vars) ==
    Prefix(SelectSeq(locals, LAMBDA b : ~Excluded(b.name)), max_vars)

\* serialize_variables raises when reading a visited value's shape raises
\* (hasattr swallows AttributeError only).
serialize_raises(locals, max_vars) ==
    \E i \in 1..Len(Visited(locals, max_vars)) : Visited(locals, max_vars)[i].shape = "raises"

\* serialize_variables: the names reported.
serialize_variables(locals, max_vars) ==
    { Visited(locals, max_vars)[i].name : i \in 1..Len(Visited(locals, max_vars)) }

\* Python dict assignment locals[name] = value: a rebinding keeps its place.
Bind(locals, b) ==
    IF \E i \in 1..Len(locals) : locals[i].name = b.name
    THEN [ i \in 1..Len(locals) |-> IF locals[i].name = b.name THEN b ELSE locals[i] ]
    ELSE Append(locals, b)

\* worker_process, the try body after exec returned: success is set first, then
\* the snapshot is taken; a raising snapshot lands in the except clause.
AfterExec(result, locals) ==
    IF serialize_raises(locals, MAX_VARS)
    THEN [ result EXCEPT !.success = TRUE, !.error = Some(ERR_SHAPE) ]
    ELSE [ result EXCEPT !.success = TRUE,
                         !.variables = Some(serialize_variables(locals, MAX_VARS)) ]

\* worker_process, the except Exception clause: only the error text is set.
OnException(result, text) == [ result EXCEPT !.error = Some(text) ]

\* tracemalloc.get_traced_memory(): the peaks, in bytes, a run may show.
PeakBytes == { 3 * 1024 * 1024 }

\* A slip in the finally clause: the measured fields are not filled in.
Finally_unfilled(result, sink, peak, elapsed) == result

\* worker_process, the finally clause: the measured fields of the result.
Finally(result, sink, peak, elapsed) ==
    [ result EXCEPT !.output = sink.buf,
                    !.truncated = sink.truncated,
                    !.memory_peak_mb = Some((peak \div 1024) \div 1024),
                    !.execution_time = Some(elapsed) ]

\* A slip after the join: every return of the join is taken for a timeout.
AfterJoin_always_timeout(alive) == "terminate"

\* universal_inspector: where it goes once the bounded join has returned.
AfterJoin(alive) == IF alive THEN "terminate" ELSE "read"

\* The bytes the pipe under a multiprocessing.Queue holds before a write to it
\* blocks (the operating system's pipe buffer).
PIPE_CAPACITY == 65536

\* The bytes of a pickled result, at the least: its output and its error text.
PickledSize(r) == Len(r.output) + (IF r.error = None THEN 0 ELSE Len(r.error[1]))

RECURSIVE PickledSizes(_)
PickledSizes(items) ==
    IF items = << >> THEN 0 ELSE PickledSize(Head(items)) + PickledSizes(Tail(items))

\* The feeder thread's write of the buffered items goes through when the pipe
\* has room for them; the parent takes nothing out before its join has returned.
PipeHasRoom(buffered, channel) ==
    PickledSizes(channel) + PickledSizes(buffered) <= PIPE_CAPACITY

\* universal_inspector: what it returns for a child that has exited.
QueueResult(channel) == IF channel # << >> THEN Head(channel) ELSE CrashedResult

\* ------------------------------- agent/inspector.py: the capability guard
\* Python's part in text: the text occurs somewhere in it.
Contains(text, part) ==
    \E i \in 1..(Len(text) - Len(part) + 1) : SubSeq(text, i, i + Len(part) - 1) = part

\* Python's full_path.split('.'): the segments between the dots, empty ones
\* included.
RECURSIVE SplitDots(_)
SplitDots(s) ==
    IF \E i \in 1..Len(s) : SubSeq(s, i, i) = "."
    THEN LET i == CHOOSE k \in 1..Len(s) :
                      /\ SubSeq(s, k, k) = "."
                      /\ \A j \in 1..(k - 1) : SubSeq(s, j, j) # "."
         IN  << SubSeq(s, 1, i - 1) >> \o SplitDots(SubSeq(s, i + 1, Len(s)))
    ELSE << s >>

\* The top-level modules importlib.import_module finds in the runner's image.
InstalledModules == { "time", "builtins", "os" }

\* hasattr(obj, name) for the objects of the image, each named by its dotted
\* path from its module.
Attributes(obj) ==
    CASE obj = "time" -> { "sleep" }
      [] obj = "builtins" -> { "open", "exec", "eval", "compile", "print", "str" }
      [] obj = "builtins.str" -> { "upper" }
      [] obj = "os" -> { "path", "system" }
      [] obj = "os.path" -> { "join" }
      [] OTHER -> { }

\* setattr on a built-in type raises TypeError.
RejectsSetattr(obj) == obj \in { "builtins.str" }

\* create_forbidden_trigger(reason)(...): the text of the RuntimeError it raises,
\* as the except clause of worker_process renders it.
create_forbidden_trigger(reason) == "RuntimeError: FORBIDDEN: " \o reason

\* resolve_target, the loop over parts[1:-1]: the object reached from obj, or
\* None when an attribute on the way is missing.
RECURSIVE WalkAttributes(_, _)
WalkAttributes(obj, parts) ==
    IF parts = << >> THEN Some(obj)
    ELSE IF Head(parts) \notin Attributes(obj) THEN None
    ELSE WalkAttributes(obj \o "." \o Head(parts), Tail(parts))

\* resolve_target(full_path): what it raises (None when it returns), and the
\* pair it returns.  A path of one segment raises ValueError; so does
\* import_module of an empty module name; an ImportError gives (None, "").
resolve_target(full_path) ==
    LET parts == SplitDots(full_path)
    IN  IF Len(parts) < 2
        THEN [ raised |-> Some("ValueError: Invalid path format"), obj |-> None, attr |-> "" ]
        ELSE IF parts[1] = ""
        THEN [ raised |-> Some("ValueError: Empty module name"), obj |-> None, attr |-> "" ]
        ELSE IF parts[1] \notin InstalledModules
        THEN [ raised |-> None, obj |-> None, attr |-> "" ]
        ELSE LET target == WalkAttributes(parts[1], SubSeq(parts, 2, Len(parts) - 1))
             IN  IF target = None
                 THEN [ raised |-> None, obj |-> None, attr |-> "" ]
                 ELSE [ raised |-> None, obj |-> target, attr |-> parts[Len(parts)] ]

\* setattr(target_obj, attr_name, trap): the traps in place afterwards, each
\* [target, reason]; a later trap on the same attribute replaces the earlier.
SetTrap(patched, target, reason) ==
    { t \in patched : t.target # target } \cup { [ target |-> target, reason |-> reason ] }

\* worker_process, one turn of the monkey-patching loop: the traps in place
\* after the rule, when resolve_target returned.
PatchRule(patched, rule) ==
    LET r == resolve_target(rule.path)
    IN  IF r.obj # None /\ r.attr \in Attributes(r.obj[1]) /\ ~RejectsSetattr(r.obj[1])
        THEN SetTrap(patched, r.obj[1] \o "." \o r.attr, rule.reason)
        ELSE patched

\* worker_process, the monkey-patching loop: the exception that ended it (None
\* when it ran to its end) and the traps in place.  resolve_target is called
\* outside the loop's try.
RECURSIVE PatchAll(_, _)
PatchAll(patched, rules) ==
    IF rules = << >> THEN [ raised |-> None, patched |-> patched ]
    ELSE IF resolve_target(Head(rules).path).raised # None
    THEN [ raised |-> resolve_target(Head(rules).path).raised, patched |-> patched ]
    ELSE PatchAll(PatchRule(patched, Head(rules)), Tail(rules))

\* The reason of the trap in place on target, or None.
TrapOn(patched, target) ==
    IF \E t \in patched : t.target = target
    THEN Some((CHOOSE t \in patched : t.target = target).reason)
    ELSE None

\* worker_process: the names deleted from the copy of builtins.__dict__ that the
\* user code gets.
REMOVED_BUILTINS == { "open", "exec", "eval", "quit", "exit" }

\* What a call of the builtin name(...) in the user code raises (None when the
\* call goes through): the name is looked up in safe_builtins, from which the
\* removed names are gone, traps and all.
CallBuiltin(patched, name) ==
    IF name \in REMOVED_BUILTINS
    THEN Some("NameError: name '" \o name \o "' is not defined")
    ELSE IF TrapOn(patched, "builtins." \o name) # None
    THEN Some(create_forbidden_trigger(TrapOn(patched, "builtins." \o name)[1]))
    ELSE None

\* What a call of module.attr(...) in the user code raises, the module being
\* imported by the user code.
CallAttribute(patched, target) ==
    IF TrapOn(patched, target) # None
    THEN Some(create_forbidden_trigger(TrapOn(patched, target)[1]))
    ELSE None

\* What the engine's own call of a builtin (compile, exec) raises: the name is
\* looked up in the builtins module itself, where the traps are.
CallEngineBuiltin(patched, name) == CallAttribute(patched, "builtins." \o name)

\* safe_import: the modules it refuses.
DENIED_MODULES == { "os", "subprocess", "shutil", "sys", "importlib", "inspect" }

\* safe_import(name, ...): the requested name, as a whole, is looked up in the
\* list.
safe_import_refuses(name) == name \in DENIED_MODULES

\* The text of the ImportError safe_import raises.
ImportErrorText(name) == "ImportError: Security: Import of '" \o name \o "' is forbidden."

\* import a.b.c binds the top-level package a in the importing scope.
TopLevel(name) == SplitDots(name)[1]

\* ------------------------------------ __main__ and the container's output
\* A line written to the container's stdout/stderr: what json.loads makes of
\* it (kind, data) and its text.
RenderResult(r) == << 123 >> \o r.output \o << 125 >>

\* json.dumps(result, ensure_ascii=False), printed.  Of the line's text only the
\* braces and the output are rendered; the other keys are left out.
JsonLine(r) == [ kind |-> "json_obj", data |-> r, text |-> RenderResult(r) ]

\* The lines the user code can write to file descriptor 1 behind the engine's
\* back (posix.write(1, ...): posix is not among the refused modules).
FORGED_LINE ==
    [ kind |-> "json_obj",
      data |-> [ submission_id |-> "forged", success |-> TRUE, output |-> << >> ],
      text |-> << 123, 102, 125 >> ]
NO_OUTPUT_LINE ==
    [ kind |-> "json_obj", data |-> [ success |-> TRUE ], text |-> << 123, 115, 125 >> ]
LIST_LINE == [ kind |-> "json_other", data |-> << >>, text |-> << 91, 93 >> ]

RawLines == { FORGED_LINE, NO_OUTPUT_LINE, LIST_LINE }

\* The traceback the interpreter prints for an exception nobody caught.
TRACEBACK_LINE == [ kind |-> "text", data |-> << >>, text |-> << 84, 114, 97 >> ]

\* __main__, except FileNotFoundError: the line printed before sys.exit(1).
CODE_NOT_FOUND_LINE ==
    [ kind |-> "json_obj",
      data |-> [ success |-> FALSE, error |-> Some("System Error: Code file not found") ],
      text |-> << 123, 110, 125 >> ]

\* container.logs().decode(...): the text of the lines, one per line.
RECURSIVE LogText(_)
LogText(lines) ==
    IF lines = << >> THEN << >>
    ELSE Head(lines).text \o TEXT_NL \o LogText(Tail(lines))

\* ------------------------------ app/services/docker_manager.py: the values
\* The grace added to the request's timeout, and the length of the excerpt.
WAIT_GRACE == 2
EXCERPT_CHARS == 1000

ERR_CONTAINER_TIMEOUT == "Docker Container Timeout"
ERR_INVALID_JSON == "Invalid JSON from inspector"

ResultFields ==
    { "submission_id", "success", "output", "error", "truncated", "memory_peak_mb",
      "execution_time", "variables", "system_error", "hotspots" }

\* schemas.ExecutionResult: the defaults of the optional fields.
FieldDefault(k) == IF k = "truncated" THEN FALSE ELSE None

\* schemas.ExecutionResult: submission_id, success and output are required.
Validates(data) == { "submission_id", "success", "output" } \subseteq DOMAIN data

\* schemas.ExecutionResult(**data): unknown keys are dropped, missing ones get
\* their default.
ExecutionResult(data) ==
    [ k \in ResultFields |-> IF k \in DOMAIN data THEN data[k] ELSE FieldDefault(k) ]

\* A slip in the assignment: data.setdefault('submission_id', submission_id).
SetSubmissionId_default(data, sid) ==
    [ k \in DOMAIN data \cup { "submission_id" } |->
        IF k \in DOMAIN data THEN data[k] ELSE sid ]

\* data['submission_id'] = submission_id
SetSubmissionId(data, sid) ==
    [ k \in DOMAIN data \cup { "submission_id" } |->
        IF k = "submission_id" THEN sid ELSE data[k] ]

\* run_code_in_docker: the result of the branch where container.wait raised.
ContainerTimeoutResult(sid) ==
    ExecutionResult([ submission_id |-> sid, success |-> FALSE, output |-> << >>,
                      error |-> Some(ERR_CONTAINER_TIMEOUT) ])

\* A slip in the excerpt: the logs are passed on whole.
InvalidJsonResult_unclipped(sid, logs) ==
    ExecutionResult([ submission_id |-> sid, success |-> FALSE, output |-> logs,
                      system_error |-> Some(ERR_INVALID_JSON) ])

\* run_code_in_docker: the result of the except json.JSONDecodeError branch.
InvalidJsonResult(sid, logs) ==
    ExecutionResult([ submission_id |-> sid, success |-> FALSE,
                      output |-> Prefix(logs, EXCERPT_CHARS),
                      system_error |-> Some(ERR_INVALID_JSON) ])

\* run_code_in_docker: the result of the outer except Exception branch.
SystemErrorResult(sid, message) ==
    ExecutionResult([ submission_id |-> sid, success |-> FALSE, output |-> << >>,
                      system_error |-> Some(message) ])

\* json.loads(logs) succeeds on exactly one JSON document.
JsonLoads(lines) ==
    IF Len(lines) = 1 /\ lines[1].kind \in { "json_obj", "json_other" }
    THEN [ ok |-> TRUE, isdict |-> lines[1].kind = "json_obj", data |-> lines[1].data ]
    ELSE [ ok |-> FALSE, isdict |-> FALSE, data |-> << >> ]

\* run_code_in_docker, from container.logs() to the return: the parsed result,
\* the invalid-JSON result, or (item assignment on a non-dict, a validation
\* error) the outer handler's result.
ParseLogs(sid, lines) ==
    LET parsed == JsonLoads(lines)
    IN  IF ~parsed.ok THEN InvalidJsonResult(sid, LogText(lines))
        ELSE IF ~parsed.isdict
        THEN SystemErrorResult(sid, "TypeError: object does not support item assignment")
        ELSE IF ~Validates(SetSubmissionId(parsed.data, sid))
        THEN SystemErrorResult(sid, "ValidationError: field required")
        ELSE ExecutionResult(SetSubmissionId(parsed.data, sid))

\* A slip in the finally clause: a failed container.remove is not caught.
AfterContainerRemove_uncaught(ok) == IF ok THEN "cleanup_staging" ELSE "raised"

\* run_code_in_docker, the finally clause: a failed container.remove is
\* swallowed, and the staging area comes next either way.
AfterContainerRemove(ok) == "cleanup_staging"

\* A slip in the finally clause: a staging removal that failed sends the
\* request round again.
AfterStagingRemove_retry(ok) == IF ok THEN "returned" ELSE "stage"

\* run_code_in_docker, the finally clause: nothing from the staging removal
\* leaves the function.
AfterStagingRemove(ok) == "returned"

\* ------------------------------------------------------------------- state
VARIABLES
    \* a LimitedStream on its own (StreamSpec)
    stream,           \* the LimitedStream driven directly by write() calls
    written,          \* history: the concatenation of every text handed to stream.write
    lastWrite,        \* history: [before, text, ret] of the latest write(), or None
    \* universal_inspector (the parent process)
    timeout_seconds,  \* its timeout_seconds argument
    insp_pc,          \* where the parent is
    insp_result,      \* None, or Some(the CodeResult it returned)
    join_left,        \* seconds left before process.join(timeout=...) gives up
    alive_seen,       \* history: what process.is_alive() answered, or None
    queue_seen,       \* history: the queue as the parent found it, or None
    \* worker_process (the child process)
    child_pc,         \* where the child is
    result,           \* the child's result dict
    user_locals,      \* the user code's local scope, in insertion order
    captured_output,  \* the LimitedStream that stands in for sys.stdout/sys.stderr
    redirected,       \* sys.stdout/sys.stderr point at captured_output
    tracing,          \* tracemalloc is tracing
    elapsed,          \* seconds since start_time = _timer() was taken
    sigterm_ignored,  \* the user code has set SIGTERM to SIG_IGN
    patched,          \* the traps the monkey-patching loop has put in place
    nstmts,           \* user statements executed so far
    pending,          \* None, or Some(a BaseException propagating out of the try)
    escaped,          \* None, or Some(the exception that left worker_process)
    nputs,            \* history: calls of return_queue.put
    put_seen,         \* history: None, or Some([left, result]): the result put, and
                      \* the seconds the parent's join still had when it was
    \* the multiprocessing.Queue
    qbuf,             \* items put by the child, not yet written to the pipe
    pipe,             \* items the parent can read
    \* file descriptors 1 and 2 of the processes: the lines written to them
    fd_out,
    \* __main__ of inspector.py (the container's first process)
    main_pc,
    \* run_code_in_docker
    request,          \* [submission_id, timeout] of the ExecutionRequest
    orch_pc,          \* where run_code_in_docker is
    orch_result,      \* None, or Some(the ExecutionResult of its return statement)
    container,        \* the container: "none", "running", "exited", "removed"
    has_container,    \* the local variable container is not None
    temp_dir_set,     \* the local variable temp_dir is not None
    staging,          \* the staging directory: "none", "partial", "full"
    wait_left,        \* seconds left before container.wait(timeout=...) gives up
    staging_made,     \* history: the staging directory was created
    remove_tried,     \* history: container.remove(force=True) was called
    rmtree_tried,     \* history: shutil.rmtree(temp_dir, ...) was called
    \* histories of the run
    overran,          \* the user code was still running after request.timeout seconds
    host_killed,      \* the host has killed the child or the container
    wait_raised,      \* container.wait(timeout=...) has raised
    \* the capability guard
    blacklist,        \* the blacklist argument: a sequence of [path, reason]
    imported,         \* history: the modules the user code has bound by import
    invoked,          \* history: None, or Some(the reason of a trapped callable the
                      \* user code has called)
    \* run_code_in_docker on the threads of the executor (PoolSpec)
    jobs,             \* per thread: where its run_code_in_docker is, and its request
    exchange,         \* the exchange directory: per staging directory, None or
                      \* Some(the thread that wrote its files)
    \* serialize_variables on its own (SnapshotSpec)
    max_vars,         \* its max_vars argument
    clean_vars        \* what the latest call did: [raised, names]

streamVars == << stream, written, lastWrite >>
inspVars == << timeout_seconds, insp_pc, insp_result, join_left, alive_seen,
              queue_seen >>
childVars == << child_pc, result, user_locals, captured_output, redirected, tracing,
                elapsed, sigterm_ignored, patched, nstmts, pending, escaped, nputs >>
queueVars == << qbuf, pipe >>

orchVars == << main_pc, request, orch_pc, orch_result, container, has_container,
               temp_dir_set, staging, wait_left, staging_made, remove_tried,
               rmtree_tried >>

histVars == << overran, host_killed, wait_raised >>

guardVars == << blacklist, imported, invoked >>

poolVars == << jobs, exchange >>

snapVars == << max_vars, clean_vars >>

vars == << streamVars, inspVars, childVars, queueVars, fd_out, orchVars, histVars,
          guardVars, poolVars, snapVars, put_seen >>

\* The state of everything but the lone LimitedStream before anything runs.
RunnerIdle ==
    /\ insp_result = None
    /\ join_left = 0
    /\ alive_seen = None
    /\ queue_seen = None
    /\ child_pc = "none"
    /\ result = InitialResult
    /\ user_locals = << >>
    /\ captured_output = LimitedStream(CAPTURE_LIMIT)
    /\ redirected = FALSE
    /\ tracing = FALSE
    /\ elapsed = 0
    /\ sigterm_ignored = FALSE
    /\ patched = { }
    /\ imported = { }
    /\ invoked = None
    /\ nstmts = 0
    /\ pending = None
    /\ escaped = None
    /\ nputs = 0
    /\ put_seen = None
    /\ qbuf = << >>
    /\ pipe = << >>
    /\ fd_out = << >>
    /\ overran = FALSE
    /\ host_killed = FALSE
    /\ wait_raised = FALSE

\* No container and no orchestrator: the processes run on their own.
OrchAbsent ==
    /\ main_pc = "absent"
    /\ request = [ submission_id |-> "none", timeout |-> MAIN_TIMEOUT_SECONDS ]
    /\ orch_pc = "absent"
    /\ orch_result = None
    /\ container = "none"
    /\ has_container = FALSE
    /\ temp_dir_set = FALSE
    /\ staging = "none"
    /\ wait_left = 0
    /\ staging_made = FALSE
    /\ remove_tried = FALSE
    /\ rmtree_tried = FALSE

\* The threads of the executor that process_job hands run_code_in_docker to.
Threads == { 1, 2 }

\* No request is with the executor, and the exchange directory is empty.
PoolIdle ==
    /\ jobs = [ t \in Threads |-> [ pc |-> "absent", submission_id |-> "none",
                                     found |-> None ] ]
    /\ exchange = { }

\* serialize_variables as worker_process calls it, before it has.
SnapshotIdle ==
    /\ max_vars = MAX_VARS
    /\ clean_vars = [ raised |-> FALSE, names |-> { } ]

StreamIdle ==
    /\ stream = LimitedStream(0)
    /\ written = << >>
    /\ lastWrite = None

\* ------------------------------------------- StreamSpec: the sink on its own
Chars == { 97, 10 }

Texts == UNION { [ 1..n -> Chars ] : n \in 0..MaxTextLen }

StreamInit ==
    /\ \E limit \in 0..MaxCap : stream = LimitedStream(limit)
    /\ written = << >>
    /\ lastWrite = None
    /\ RunnerIdle
    /\ OrchAbsent
    /\ PoolIdle
    /\ SnapshotIdle
    /\ blacklist = << >>
    /\ timeout_seconds = MAIN_TIMEOUT_SECONDS
    /\ insp_pc = "absent"

StreamWrite(text) ==
    /\ Len(written) + Len(text) <= MaxWritten
    /\ stream' = LimitedStream_write(stream, text)
    /\ written' = written \o text
    /\ lastWrite' = Some([ before |-> stream, text |-> text,
                           ret |-> LimitedStream_write_result(stream, text) ])
    /\ UNCHANGED << orchVars, histVars, inspVars, childVars, queueVars, fd_out,
                    guardVars, poolVars, snapVars, put_seen >>

StreamNext == \E text \in Texts : StreamWrite(text)

StreamSpec == StreamInit /\ [][StreamNext]_vars

\* -------------------------------------------- the user code, as it executes
\* What the statements of the untrusted program do to the child process.  The
\* program is chosen statement by statement.
TEXT_HI == << 104, 105 >>
TEXT_FLOOD == [ i \in 1..(CAPTURE_LIMIT + 1) |-> 120 ]

Bindings ==
    { [ name |-> "x", shape |-> "none" ],
      [ name |-> "a", shape |-> "raises" ],
      [ name |-> "sys", shape |-> "none" ] }

InExec == child_pc = "exec" /\ nstmts < MaxStmts

\* print(text): print writes the text, then the newline, to sys.stdout.
UserPrint(text) ==
    /\ InExec
    /\ captured_output' =
           LimitedStream_write(LimitedStream_write(captured_output, text), TEXT_NL)
    /\ nstmts' = nstmts + 1
    /\ UNCHANGED << streamVars, guardVars, poolVars, snapVars, put_seen, orchVars, histVars, inspVars, queueVars, fd_out, child_pc, result,
                    user_locals, redirected, tracing, elapsed, sigterm_ignored, patched,
                    pending, escaped, nputs >>

\* name = 1, or name = an object whose shape property raises ValueError.
UserAssign(b) ==
    /\ InExec
    /\ user_locals' = Bind(user_locals, b)
    /\ nstmts' = nstmts + 1
    /\ UNCHANGED << streamVars, guardVars, poolVars, snapVars, put_seen, orchVars, histVars, inspVars, queueVars, fd_out, child_pc, result,
                    captured_output, redirected, tracing, elapsed, sigterm_ignored, patched,
                    pending, escaped, nputs >>

\* raise ValueError("boom"): caught by worker_process's except Exception.
UserRaise ==
    /\ InExec
    /\ result' = OnException(result, ERR_VALUE)
    /\ child_pc' = "finally"
    /\ nstmts' = nstmts + 1
    /\ UNCHANGED << streamVars, guardVars, poolVars, snapVars, put_seen, orchVars, histVars, inspVars, queueVars, fd_out, user_locals,
                    captured_output, redirected, tracing, elapsed, sigterm_ignored, patched,
                    pending, escaped, nputs >>

\* raise ValueError("x" * 131072): caught like any Exception, and the whole text
\* goes into the result.
UserRaiseHuge ==
    /\ InExec
    /\ result' = OnException(result, ERR_HUGE)
    /\ child_pc' = "finally"
    /\ nstmts' = nstmts + 1
    /\ UNCHANGED << streamVars, guardVars, poolVars, snapVars, put_seen, orchVars, histVars,
                    inspVars, queueVars, fd_out, user_locals, captured_output, redirected,
                    tracing, elapsed, sigterm_ignored, patched, pending, escaped, nputs >>

\* raise SystemExit: not an Exception, so the except clause does not take it.
UserSystemExit ==
    /\ InExec
    /\ pending' = Some("SystemExit")
    /\ child_pc' = "finally"
    /\ nstmts' = nstmts + 1
    /\ UNCHANGED << streamVars, guardVars, poolVars, snapVars, put_seen, orchVars, histVars, inspVars, queueVars, fd_out, result, user_locals,
                    captured_output, redirected, tracing, elapsed, sigterm_ignored, patched,
                    escaped, nputs >>

\* while True: pass
UserLoop ==
    /\ InExec
    /\ child_pc' = "looping"
    /\ nstmts' = nstmts + 1
    /\ UNCHANGED << streamVars, guardVars, poolVars, snapVars, put_seen, orchVars, histVars, inspVars, queueVars, fd_out, result, user_locals,
                    captured_output, redirected, tracing, elapsed, sigterm_ignored, patched,
                    pending, escaped, nputs >>

\* import signal; signal.signal(signal.SIGTERM, signal.SIG_IGN): signal is not
\* among the modules safe_import refuses.
UserIgnoreSigterm ==
    /\ InExec
    /\ sigterm_ignored' = TRUE
    /\ nstmts' = nstmts + 1
    /\ UNCHANGED << streamVars, guardVars, poolVars, snapVars, put_seen, orchVars, histVars, inspVars, queueVars, fd_out, child_pc, result,
                    user_locals, captured_output, redirected, tracing, elapsed, patched,
                    pending, escaped, nputs >>

\* name(...), name a builtin: the lookup goes to safe_builtins.
UserCallBuiltin(name) ==
    /\ InExec
    /\ invoked' = IF TrapOn(patched, "builtins." \o name) # None
                  THEN TrapOn(patched, "builtins." \o name)
                  ELSE invoked
    /\ IF CallBuiltin(patched, name) # None
       THEN /\ result' = OnException(result, CallBuiltin(patched, name)[1])
            /\ child_pc' = "finally"
       ELSE UNCHANGED << result, child_pc >>
    /\ nstmts' = nstmts + 1
    /\ UNCHANGED << streamVars, poolVars, snapVars, put_seen, orchVars, histVars, inspVars, queueVars, fd_out,
                    blacklist, imported, user_locals, captured_output, redirected, tracing,
                    elapsed, sigterm_ignored, patched, pending, escaped, nputs >>

\* __import__(module).attr(...): a call of an attribute of a module the user
\* code may import.
UserCallAttribute(target) ==
    /\ InExec
    /\ ~safe_import_refuses(TopLevel(target))
    /\ invoked' = IF TrapOn(patched, target) # None THEN TrapOn(patched, target) ELSE invoked
    /\ imported' = imported \cup { TopLevel(target) }
    /\ IF CallAttribute(patched, target) # None
       THEN /\ result' = OnException(result, CallAttribute(patched, target)[1])
            /\ child_pc' = "finally"
       ELSE UNCHANGED << result, child_pc >>
    /\ nstmts' = nstmts + 1
    /\ UNCHANGED << streamVars, poolVars, snapVars, put_seen, orchVars, histVars, inspVars, queueVars, fd_out,
                    blacklist, user_locals, captured_output, redirected, tracing,
                    elapsed, sigterm_ignored, patched, pending, escaped, nputs >>

\* import name: safe_import refuses or hands over to __import__, and the import
\* statement binds the top-level package.
UserImport(name) ==
    /\ InExec
    /\ IF safe_import_refuses(name)
       THEN /\ result' = OnException(result, ImportErrorText(name))
            /\ child_pc' = "finally"
            /\ UNCHANGED << imported, user_locals >>
       ELSE /\ imported' = imported \cup { TopLevel(name) }
            /\ user_locals' = Bind(user_locals, [ name |-> TopLevel(name), shape |-> "none" ])
            /\ UNCHANGED << result, child_pc >>
    /\ nstmts' = nstmts + 1
    /\ UNCHANGED << streamVars, poolVars, snapVars, put_seen, orchVars, histVars, inspVars, queueVars, fd_out,
                    blacklist, invoked, captured_output, redirected, tracing,
                    elapsed, sigterm_ignored, patched, pending, escaped, nputs >>

\* ------------------------------------------------------------ worker_process
\* A process that has ended has no memory: the child's private state is
\* forgotten (the history variables escaped and nputs are kept).
MemoryGone ==
    /\ result' = InitialResult
    /\ user_locals' = << >>
    /\ captured_output' = LimitedStream(CAPTURE_LIMIT)
    /\ redirected' = FALSE
    /\ tracing' = FALSE
    /\ elapsed' = 0
    /\ sigterm_ignored' = FALSE
    /\ patched' = { }
    /\ nstmts' = 0
    /\ pending' = None

\* Up to _trace_start() and start_time: the result dict, the monkey-patching
\* loop, safe_builtins, the redirected streams.  An exception of resolve_target
\* leaves worker_process there and then: the try has not been entered, nothing
\* is put on the queue, and the interpreter prints the traceback as it exits.
WorkerSetup ==
    /\ child_pc = "start"
    /\ LET patching == PatchAll({ }, blacklist)
       IN  IF patching.raised # None
           THEN /\ child_pc' = "exited"
                /\ escaped' = patching.raised
                /\ fd_out' = Append(fd_out, TRACEBACK_LINE)
                /\ MemoryGone
           ELSE /\ result' = InitialResult
                /\ user_locals' = << >>
                /\ captured_output' = LimitedStream(CAPTURE_LIMIT)
                /\ redirected' = TRUE
                /\ tracing' = TRUE
                /\ elapsed' = 0
                /\ patched' = patching.patched
                /\ child_pc' = "compile"
                /\ UNCHANGED << fd_out, sigterm_ignored, nstmts, pending, escaped >>
    /\ UNCHANGED << streamVars, guardVars, poolVars, snapVars, put_seen, orchVars, histVars, inspVars,
                    queueVars, nputs >>

\* compile(user_code, "<student_code>", "exec") and the call of exec: a
\* SyntaxError is an Exception, and so is what a trap on builtins.compile or
\* builtins.exec raises.
WorkerCompile ==
    /\ child_pc = "compile"
    /\ IF CallEngineBuiltin(patched, "compile") # None
       THEN /\ child_pc' = "finally"
            /\ result' = OnException(result, CallEngineBuiltin(patched, "compile")[1])
       ELSE \E ok \in BOOLEAN :
               IF ~ok
               THEN child_pc' = "finally" /\ result' = OnException(result, ERR_SYNTAX)
               ELSE IF CallEngineBuiltin(patched, "exec") # None
               THEN /\ child_pc' = "finally"
                    /\ result' = OnException(result, CallEngineBuiltin(patched, "exec")[1])
               ELSE child_pc' = "exec" /\ result' = result
    /\ UNCHANGED << streamVars, guardVars, poolVars, snapVars, put_seen, orchVars, histVars, inspVars,
                    queueVars, fd_out, user_locals, captured_output, redirected, tracing,
                    elapsed, sigterm_ignored, patched, nstmts, pending, escaped, nputs >>

\* exec(...) returned: success, then the snapshot of the locals.
WorkerExecDone ==
    /\ child_pc = "exec"
    /\ result' = AfterExec(result, user_locals)
    /\ child_pc' = "finally"
    /\ UNCHANGED << streamVars, guardVars, poolVars, snapVars, put_seen, orchVars, histVars, inspVars, queueVars, fd_out, user_locals,
                    captured_output, redirected, tracing, elapsed, sigterm_ignored, patched,
                    nstmts, pending, escaped, nputs >>

\* The finally clause, through return_queue.put(result); an exception the
\* except clause did not take then leaves worker_process.
WorkerFinally ==
    /\ child_pc = "finally"
    /\ \E peak \in PeakBytes :
          result' = Finally(result, captured_output, peak, elapsed)
    /\ tracing' = FALSE
    /\ redirected' = FALSE
    /\ qbuf' = Append(qbuf, result')
    /\ nputs' = nputs + 1
    /\ put_seen' = Some([ left |-> IF insp_pc = "join" THEN join_left ELSE 0,
                          result |-> result' ])
    /\ escaped' = pending
    /\ child_pc' = "exiting"
    /\ UNCHANGED << streamVars, guardVars, poolVars, snapVars, orchVars, histVars, inspVars, pipe, fd_out, user_locals,
                    captured_output, elapsed, sigterm_ignored, patched, nstmts, pending >>

\* -------------------------------------------- the child process and its queue
Alive == child_pc \notin { "none", "exited", "killed" }

\* Time is spent in the user code; the engine's own steps take none.
UserCodeRunning == child_pc \in { "exec", "looping" }

\* The feeder thread is stuck in its write to the pipe, and the child, which
\* joins the feeder thread before it exits, with it.
FeederBlocked == Alive /\ qbuf # << >> /\ ~PipeHasRoom(qbuf, pipe)

\* The queue's feeder thread writes the buffered items to the pipe.
FeederFlush ==
    /\ Alive
    /\ qbuf # << >>
    /\ PipeHasRoom(qbuf, pipe)
    /\ pipe' = pipe \o qbuf
    /\ qbuf' = << >>
    /\ UNCHANGED << streamVars, guardVars, poolVars, snapVars, put_seen, orchVars, histVars, inspVars, childVars, fd_out >>

\* The process exits once worker_process is over and the feeder has flushed.
ChildExit ==
    /\ child_pc = "exiting"
    /\ qbuf = << >>
    /\ child_pc' = "exited"
    /\ MemoryGone
    /\ UNCHANGED << streamVars, guardVars, poolVars, snapVars, put_seen, orchVars, histVars, inspVars, queueVars, fd_out, escaped, nputs >>

\* The child dies without running any more code: a native crash, or the
\* kernel's out-of-memory kill.
ChildCrash ==
    /\ Alive
    /\ child_pc' = "killed"
    /\ qbuf' = << >>
    /\ MemoryGone
    /\ host_killed' = TRUE
    /\ UNCHANGED << overran, wait_raised >>
    /\ UNCHANGED << streamVars, guardVars, poolVars, snapVars, put_seen, orchVars, inspVars, pipe, fd_out, escaped, nputs >>

\* -------------------------------------------------------- universal_inspector
\* Queue(), Process(...), process.start(), and the call of process.join(timeout).
InspectorStart ==
    /\ insp_pc = "call"
    /\ child_pc' = "start"
    /\ join_left' = timeout_seconds
    /\ insp_pc' = "join"
    /\ UNCHANGED << streamVars, guardVars, poolVars, snapVars, put_seen, orchVars, histVars, timeout_seconds, insp_result, alive_seen, queue_seen, queueVars,
                    fd_out, result, user_locals, captured_output, redirected, tracing,
                    elapsed, sigterm_ignored, patched, nstmts, pending, escaped, nputs >>

\* process.join(timeout=timeout_seconds) returns: the child is gone, or time is up.
InspectorJoinReturns ==
    /\ insp_pc = "join"
    /\ ~Alive \/ join_left = 0
    /\ insp_pc' = "is_alive"
    /\ join_left' = 0
    /\ UNCHANGED << streamVars, guardVars, poolVars, snapVars, put_seen, orchVars, histVars, timeout_seconds, insp_result,
                    alive_seen, queue_seen, childVars, queueVars, fd_out >>

\* if process.is_alive():
InspectorIsAlive ==
    /\ insp_pc = "is_alive"
    /\ alive_seen' = Some(Alive)
    /\ insp_pc' = AfterJoin(Alive)
    /\ UNCHANGED << streamVars, guardVars, poolVars, snapVars, put_seen, orchVars, histVars, timeout_seconds, insp_result,
                    join_left, queue_seen, childVars, queueVars, fd_out >>

\* process.terminate(): SIGTERM, which kills a child that has not ignored it.
InspectorTerminate ==
    /\ insp_pc = "terminate"
    /\ insp_pc' = "join2"
    /\ IF Alive /\ ~sigterm_ignored
       THEN child_pc' = "killed" /\ qbuf' = << >> /\ MemoryGone
       ELSE UNCHANGED << child_pc, qbuf, result, user_locals, captured_output,
                         redirected, tracing, elapsed, sigterm_ignored, patched, nstmts,
                         pending >>
    /\ UNCHANGED << streamVars, guardVars, poolVars, snapVars, put_seen, orchVars, histVars, timeout_seconds, insp_result, join_left,
                    alive_seen, queue_seen, pipe, fd_out, escaped, nputs >>

\* process.join() returns, and the time-limit result is returned.
InspectorReturnTimeout ==
    /\ insp_pc = "join2"
    /\ ~Alive
    /\ insp_result' = Some(TimeLimitResult(timeout_seconds))
    /\ insp_pc' = "returned"
    /\ UNCHANGED << streamVars, guardVars, poolVars, snapVars, put_seen, orchVars, histVars, timeout_seconds, join_left, alive_seen, queue_seen,
                    childVars, queueVars, fd_out >>

\* if not queue.empty(): return queue.get(); else the crashed result.
InspectorReadQueue ==
    /\ insp_pc = "read"
    /\ queue_seen' = Some(pipe)
    /\ insp_result' = Some(QueueResult(pipe))
    /\ pipe' = IF pipe # << >> THEN Tail(pipe) ELSE pipe
    /\ insp_pc' = "returned"
    /\ UNCHANGED << streamVars, guardVars, poolVars, snapVars, put_seen, orchVars, histVars, histVars, timeout_seconds, join_left,
                    alive_seen, childVars, qbuf, fd_out >>

\* ------------------------------------------------------------------ the clock
\* A second passes while somebody waits with time left on its timeout, and the
\* user code runs, the child is stuck writing its result, or the container is
\* still starting.
Tick ==
    /\ orch_pc \in { "absent", "wait" }
    /\ orch_pc = "wait" => wait_left > 0
    /\ insp_pc = "join" => join_left > 0
    /\ \/ insp_pc = "join" /\ (UserCodeRunning \/ FeederBlocked)
       \/ orch_pc = "wait" /\ (UserCodeRunning \/ FeederBlocked)
       \/ /\ orch_pc = "wait"
          /\ main_pc = "boot"
          /\ request.timeout + WAIT_GRACE - wait_left < MaxStartDelay
    /\ wait_left' = IF orch_pc = "wait" THEN wait_left - 1 ELSE wait_left
    /\ join_left' = IF insp_pc = "join" THEN join_left - 1 ELSE join_left
    /\ elapsed' = IF UserCodeRunning THEN elapsed + 1 ELSE elapsed
    /\ overran' = (overran \/ (orch_pc = "wait" /\ UserCodeRunning
                              /\ elapsed + 1 > request.timeout))
    /\ UNCHANGED << host_killed, wait_raised >>
    /\ UNCHANGED << streamVars, guardVars, poolVars, snapVars, put_seen, queueVars, fd_out, timeout_seconds, insp_pc, insp_result,
                    alive_seen, queue_seen, child_pc, result, user_locals, captured_output,
                    redirected, tracing, sigterm_ignored, patched, nstmts, pending, escaped,
                    nputs, main_pc, request, orch_pc, orch_result, container,
                    has_container, temp_dir_set, staging, staging_made, remove_tried,
                    rmtree_tried >>

\* --------------------------- RunnerSpec: universal_inspector called directly
UserStep ==
    \/ UserPrint(TEXT_HI)
    \/ UserPrint(TEXT_FLOOD)
    \/ \E b \in Bindings : UserAssign(b)
    \/ UserRaise
    \/ UserRaiseHuge
    \/ UserSystemExit
    \/ UserLoop
    \/ UserIgnoreSigterm

WorkerStep ==
    \/ WorkerSetup
    \/ WorkerCompile
    \/ WorkerExecDone
    \/ WorkerFinally
    \/ FeederFlush
    \/ ChildExit

InspectorStep ==
    \/ InspectorStart
    \/ InspectorJoinReturns
    \/ InspectorIsAlive
    \/ InspectorTerminate
    \/ InspectorReturnTimeout
    \/ InspectorReadQueue

RunnerInit ==
    /\ StreamIdle
    /\ RunnerIdle
    /\ OrchAbsent
    /\ PoolIdle
    /\ SnapshotIdle
    /\ blacklist = << >>
    /\ timeout_seconds \in 1..MaxTimeout
    /\ insp_pc = "call"

RunnerNext ==
    \/ UserStep
    \/ WorkerStep
    \/ ChildCrash
    \/ InspectorStep
    \/ Tick

RunnerSpec == RunnerInit /\ [][RunnerNext]_vars

\* ------------------------------- SnapshotSpec: serialize_variables on its own
\* The bindings a local scope is built from: ordinary names, a reserved-prefix
\* name, a plumbing name; a value with no shape attribute, or one whose shape
\* cannot be read or listed.
SnapshotBindings ==
    [ name : { "a", "b", "c", "__d", "sys" }, shape : { "none", "raises" } ]

\* serialize_variables(locals_dict, max_vars): whether it raised, and the names
\* of the dict it returned.
Snapshot(locals, cap) ==
    IF serialize_raises(locals, cap)
    THEN [ raised |-> TRUE, names |-> { } ]
    ELSE [ raised |-> FALSE, names |-> serialize_variables(locals, cap) ]

SnapshotInit ==
    /\ StreamIdle
    /\ RunnerIdle
    /\ OrchAbsent
    /\ PoolIdle
    /\ blacklist = << >>
    /\ timeout_seconds = MAIN_TIMEOUT_SECONDS
    /\ insp_pc = "absent"
    /\ max_vars \in 0..MaxSnapCap
    /\ clean_vars = Snapshot(<< >>, max_vars)

\* One more binding in the scope, and serialize_variables called on it.
SnapshotBind(b) ==
    /\ user_locals' = Bind(user_locals, b)
    /\ clean_vars' = Snapshot(user_locals', max_vars)
    /\ UNCHANGED << streamVars, guardVars, poolVars, orchVars, histVars, inspVars,
                    queueVars, fd_out, max_vars, put_seen, child_pc, result, captured_output,
                    redirected, tracing, elapsed, sigterm_ignored, patched, nstmts,
                    pending, escaped, nputs >>

SnapshotNext == \E b \in SnapshotBindings : SnapshotBind(b)

SnapshotSpec == SnapshotInit /\ [][SnapshotNext]_vars

\* ---------------- GuardSpec: universal_inspector with a blacklist configured
REASON == "not allowed in this course"

Rule(path) == [ path |-> path, reason |-> REASON ]

\* Paths the patching loop resolves and traps, and paths it cannot use: one
\* segment, an empty module segment, a module that is not there, a missing final
\* attribute, a missing intermediate attribute, a type that rejects setattr.
ResolvablePaths == { "time.sleep", "builtins.open", "builtins.exec", "builtins.print" }

UnusablePaths ==
    { "sleep", ".sleep", "nomodule.f", "time.nothing", "time.nothing.f", "builtins.str.upper" }

\* The blacklists of the configurations tried: empty, one rule, and an unusable
\* rule followed by a good one.
Blacklists ==
    { << >> }
        \cup { << Rule(p) >> : p \in ResolvablePaths \cup UnusablePaths }
        \cup { << Rule(p), [ path |-> "time.sleep", reason |-> "no sleeping" ] >> :
                   p \in UnusablePaths }

GuardUserStep ==
    \/ \E name \in { "open", "print" } : UserCallBuiltin(name)
    \/ \E target \in { "time.sleep" } : UserCallAttribute(target)
    \/ \E name \in { "os", "os.path", "time" } : UserImport(name)
    \/ UserRaise
    \/ UserSystemExit

GuardInit ==
    /\ StreamIdle
    /\ RunnerIdle
    /\ OrchAbsent
    /\ PoolIdle
    /\ SnapshotIdle
    /\ blacklist \in Blacklists
    /\ timeout_seconds = MAIN_TIMEOUT_SECONDS
    /\ insp_pc = "call"

GuardNext ==
    \/ GuardUserStep
    \/ WorkerStep
    \/ ChildCrash
    \/ InspectorStep
    \/ Tick

GuardSpec == GuardInit /\ [][GuardNext]_vars

\* --------------------------------------------- the container and __main__
\* os.write(1, ...) by the user code: a line on the container's own stdout.
UserRawWrite(line) ==
    /\ InExec
    /\ fd_out' = Append(fd_out, line)
    /\ nstmts' = nstmts + 1
    /\ UNCHANGED << streamVars, guardVars, poolVars, snapVars, put_seen, orchVars, histVars, inspVars, queueVars, child_pc, result,
                    user_locals, captured_output, redirected, tracing, elapsed,
                    sigterm_ignored, patched, pending, escaped, nputs >>

\* Every process of the container ends with it, and their memory with them
\* (the histories of the runner's run are forgotten too).
ProcessesGone(how) ==
    /\ main_pc' = how
    /\ insp_pc' = IF insp_pc = "none" THEN "none" ELSE how
    /\ insp_result' = None
    /\ alive_seen' = None
    /\ queue_seen' = None
    /\ join_left' = 0
    /\ child_pc' = IF child_pc = "none" THEN "none" ELSE "killed"
    /\ MemoryGone
    /\ qbuf' = << >>
    /\ pipe' = << >>
    /\ put_seen' = None
    /\ escaped' = None
    /\ nputs' = 0

\* __main__ up to the call of universal_inspector(..., timeout_seconds=5); a
\* missing code file is reported on stdout and ends the process.
MainBoot ==
    /\ main_pc = "boot"
    /\ IF staging = "full"
       THEN /\ main_pc' = "inspecting"
            /\ insp_pc' = "call"
            /\ timeout_seconds' = MAIN_TIMEOUT_SECONDS
            /\ UNCHANGED << fd_out, container >>
       ELSE /\ fd_out' = Append(fd_out, CODE_NOT_FOUND_LINE)
            /\ main_pc' = "exited"
            /\ container' = "exited"
            /\ UNCHANGED << insp_pc, timeout_seconds >>
    /\ UNCHANGED << streamVars, guardVars, poolVars, snapVars, put_seen, histVars, insp_result, join_left, alive_seen, queue_seen, childVars,
                    queueVars, request, orch_pc, orch_result, has_container,
                    temp_dir_set, staging, wait_left, staging_made, remove_tried,
                    rmtree_tried >>

\* print(json.dumps(result, ensure_ascii=False)), and the process ends, and the
\* container with it.
MainPrint ==
    /\ main_pc = "inspecting"
    /\ insp_pc = "returned"
    /\ fd_out' = Append(fd_out, JsonLine(insp_result[1]))
    /\ container' = "exited"
    /\ ProcessesGone("exited")
    /\ UNCHANGED << streamVars, guardVars, poolVars, snapVars, histVars, timeout_seconds, request, orch_pc,
                    orch_result, has_container, temp_dir_set, staging, wait_left,
                    staging_made, remove_tried, rmtree_tried >>

\* The host ends the container (the memory ceiling's kill reaches its first
\* process): whatever was written so far is all there is.
ContainerDies ==
    /\ container = "running"
    /\ container' = "exited"
    /\ ProcessesGone("killed")
    /\ host_killed' = TRUE
    /\ UNCHANGED << overran, wait_raised >>
    /\ UNCHANGED << streamVars, guardVars, poolVars, snapVars, timeout_seconds,
                    fd_out, request, orch_pc, orch_result, has_container, temp_dir_set,
                    staging, wait_left, staging_made, remove_tried, rmtree_tried >>

\* ---------------------------------------------------------- run_code_in_docker
\* temp_dir, makedirs, and the two files: any of the file operations may raise.
OrchStage ==
    /\ orch_pc = "stage"
    /\ temp_dir_set' = TRUE
    /\ \E outcome \in { "full", "partial", "none" } :
          /\ staging' = outcome
          /\ staging_made' = (outcome # "none")
          /\ IF outcome = "full"
             THEN orch_pc' = "run" /\ orch_result' = orch_result
             ELSE /\ orch_pc' = "cleanup_container"
                  /\ orch_result' = Some(SystemErrorResult(request.submission_id,
                                                           "OSError: staging failed"))
    /\ UNCHANGED << streamVars, guardVars, poolVars, snapVars, put_seen, histVars, inspVars, childVars, queueVars, fd_out, main_pc,
                    request, container, has_container, wait_left, remove_tried,
                    rmtree_tried >>

\* client.containers.run(..., detach=True), then the call of
\* container.wait(timeout=timeout + 2).
OrchRun ==
    /\ orch_pc = "run"
    /\ \E ok \in BOOLEAN :
          IF ok
          THEN /\ container' = "running"
               /\ has_container' = TRUE
               /\ main_pc' = "boot"
               /\ wait_left' = request.timeout + WAIT_GRACE
               /\ orch_pc' = "wait"
               /\ orch_result' = orch_result
          ELSE /\ orch_pc' = "cleanup_container"
               /\ orch_result' = Some(SystemErrorResult(request.submission_id,
                                                        "APIError: cannot run the container"))
               /\ UNCHANGED << container, has_container, main_pc, wait_left >>
    /\ UNCHANGED << streamVars, guardVars, poolVars, snapVars, put_seen, histVars, inspVars, childVars, queueVars, fd_out, request,
                    temp_dir_set, staging, staging_made, remove_tried, rmtree_tried >>

\* container.wait returns: the container has exited.
OrchWaitReturns ==
    /\ orch_pc = "wait"
    /\ container = "exited"
    /\ orch_pc' = "parse"
    /\ wait_left' = 0
    /\ UNCHANGED << streamVars, guardVars, poolVars, snapVars, put_seen, histVars, inspVars, childVars, queueVars, fd_out, main_pc,
                    request, orch_result, container, has_container, temp_dir_set,
                    staging, staging_made, remove_tried, rmtree_tried >>

\* container.wait raises: the bound has passed.
OrchWaitRaises ==
    /\ orch_pc = "wait"
    /\ wait_left = 0
    /\ orch_pc' = "kill"
    /\ wait_raised' = TRUE
    /\ UNCHANGED << overran, host_killed >>
    /\ UNCHANGED << streamVars, guardVars, poolVars, snapVars, put_seen, inspVars, childVars, queueVars, fd_out, main_pc,
                    request, orch_result, container, has_container, temp_dir_set,
                    staging, wait_left, staging_made, remove_tried, rmtree_tried >>

\* except Exception: container.kill() and the timeout result.  The daemon
\* refuses to kill a container that is not running, and that error goes to the
\* outer handler.
OrchKill ==
    /\ orch_pc = "kill"
    /\ orch_pc' = "cleanup_container"
    /\ IF container = "running"
       THEN /\ container' = "exited"
            /\ ProcessesGone("killed")
            /\ orch_result' = Some(ContainerTimeoutResult(request.submission_id))
       ELSE /\ orch_result' = Some(SystemErrorResult(request.submission_id,
                                                     "APIError: container is not running"))
            /\ UNCHANGED << container, main_pc, insp_pc, insp_result, alive_seen, queue_seen,
                            join_left, child_pc, result, user_locals, captured_output,
                            redirected, tracing, elapsed, sigterm_ignored, patched, nstmts,
                            pending, qbuf, pipe, put_seen, escaped,
                            nputs >>
    /\ UNCHANGED << streamVars, guardVars, poolVars, snapVars, histVars, timeout_seconds,
                    fd_out, request, has_container, temp_dir_set, staging,
                    wait_left, staging_made, remove_tried, rmtree_tried >>

\* container.logs(), json.loads, ExecutionResult(**data), and the handlers.
OrchParse ==
    /\ orch_pc = "parse"
    /\ orch_result' = Some(ParseLogs(request.submission_id, fd_out))
    /\ orch_pc' = "cleanup_container"
    /\ UNCHANGED << streamVars, guardVars, poolVars, snapVars, put_seen, histVars, inspVars, childVars, queueVars, fd_out, main_pc,
                    request, container, has_container, temp_dir_set, staging,
                    wait_left, staging_made, remove_tried, rmtree_tried >>

\* finally: if container: container.remove(force=True), which may raise.
OrchCleanupContainer ==
    /\ orch_pc = "cleanup_container"
    /\ IF has_container
       THEN \E ok \in BOOLEAN :
               /\ remove_tried' = TRUE
               /\ container' = IF ok THEN "removed" ELSE container
               /\ orch_pc' = AfterContainerRemove(ok)
       ELSE /\ orch_pc' = AfterContainerRemove(TRUE)
            /\ UNCHANGED << remove_tried, container >>
    /\ UNCHANGED << streamVars, guardVars, poolVars, snapVars, put_seen, histVars, inspVars, childVars, queueVars, fd_out, main_pc,
                    request, orch_result, has_container, temp_dir_set, staging,
                    wait_left, staging_made, rmtree_tried >>

\* finally: if temp_dir: if os.path.exists(temp_dir): shutil.rmtree(temp_dir,
\* ignore_errors=True), which may leave the directory behind.
OrchCleanupStaging ==
    /\ orch_pc = "cleanup_staging"
    /\ IF temp_dir_set /\ staging # "none"
       THEN \E ok \in BOOLEAN :
               /\ rmtree_tried' = TRUE
               /\ staging' = IF ok THEN "none" ELSE staging
               /\ orch_pc' = AfterStagingRemove(ok)
       ELSE /\ orch_pc' = AfterStagingRemove(TRUE)
            /\ UNCHANGED << rmtree_tried, staging >>
    /\ UNCHANGED << streamVars, guardVars, poolVars, snapVars, put_seen, histVars, inspVars, childVars, queueVars, fd_out, main_pc,
                    request, orch_result, container, has_container, temp_dir_set,
                    wait_left, staging_made, remove_tried >>

\* ------------------------------------------------ Spec: one request, end to end
SubmissionIds == { "s1" }

OrchStep ==
    \/ OrchStage
    \/ OrchRun
    \/ OrchWaitReturns
    \/ OrchWaitRaises
    \/ OrchKill
    \/ OrchParse
    \/ OrchCleanupContainer
    \/ OrchCleanupStaging

Init ==
    /\ StreamIdle
    /\ RunnerIdle
    /\ PoolIdle
    /\ SnapshotIdle
    /\ blacklist = << >>
    /\ timeout_seconds = MAIN_TIMEOUT_SECONDS
    /\ insp_pc = "none"
    /\ main_pc = "none"
    /\ request \in [ submission_id : SubmissionIds, timeout : 1..MaxTimeout ]
    /\ orch_pc = "stage"
    /\ orch_result = None
    /\ container = "none"
    /\ has_container = FALSE
    /\ temp_dir_set = FALSE
    /\ staging = "none"
    /\ wait_left = 0
    /\ staging_made = FALSE
    /\ remove_tried = FALSE
    /\ rmtree_tried = FALSE

Next ==
    \/ OrchStep
    \/ MainBoot
    \/ MainPrint
    \/ ContainerDies
    \/ UserStep
    \/ \E line \in RawLines : UserRawWrite(line)
    \/ WorkerStep
    \/ ChildCrash
    \/ InspectorStep
    \/ Tick

Spec == Init /\ [][Next]_vars

\* RunnerSpec with the scheduling the operating system gives: the clock
\* advances, and the parent and the engine's own code get to run.  Nothing is
\* assumed of the user code.
RunnerFairSpec ==
    /\ RunnerInit
    /\ [][RunnerNext]_vars
    /\ WF_vars(Tick)
    /\ WF_vars(InspectorStep)
    /\ WF_vars(WorkerStep)

\* ------------------- PoolSpec: two requests with the executor at the same time
\* os.path.join(EXCHANGE_DIR, f"submission_{submission_id}"), below EXCHANGE_DIR.
StagingDir(submission_id) == "submission_" \o submission_id

\* The submission ids the two requests carry: they may be the same (a job the
\* broker delivers again, a submission sent twice).
PoolSubmissionIds == { "s1", "s2" }

\* The directories of the exchange directory after makedirs(temp_dir,
\* exist_ok=True) and the two open(..., "w") of thread t: the directory holds
\* t's files, whatever it held.
WriteStaging(dirs, dir, t) ==
    { x \in dirs : x.dir # dir } \cup { [ dir |-> dir, by |-> t ] }

\* The directories after shutil.rmtree(dir, ignore_errors=True).
RemoveStaging(dirs, dir) == { x \in dirs : x.dir # dir }

\* The thread whose files the directory holds, or 0 when it is not there.
StagedBy(dirs, dir) ==
    IF \E x \in dirs : x.dir = dir THEN (CHOOSE x \in dirs : x.dir = dir).by ELSE 0

PoolInit ==
    /\ StreamIdle
    /\ RunnerIdle
    /\ OrchAbsent
    /\ SnapshotIdle
    /\ blacklist = << >>
    /\ timeout_seconds = MAIN_TIMEOUT_SECONDS
    /\ insp_pc = "absent"
    /\ jobs \in [ Threads -> [ pc : { "stage" }, submission_id : PoolSubmissionIds,
                               found : { None } ] ]
    /\ exchange = { }

\* run_code_in_docker on thread t: temp_dir, makedirs, and the two files.
PoolStage(t) ==
    /\ jobs[t].pc = "stage"
    /\ exchange' = WriteStaging(exchange, StagingDir(jobs[t].submission_id), t)
    /\ jobs' = [ jobs EXCEPT ![t].pc = "run" ]
    /\ UNCHANGED << streamVars, guardVars, snapVars, put_seen, orchVars, histVars, inspVars,
                    childVars, queueVars, fd_out >>

\* client.containers.run(..., detach=True): the container of thread t starts.
PoolRun(t) ==
    /\ jobs[t].pc = "run"
    /\ jobs' = [ jobs EXCEPT ![t].pc = "boot" ]
    /\ UNCHANGED << streamVars, guardVars, snapVars, put_seen, orchVars, histVars, inspVars,
                    childVars, queueVars, fd_out, exchange >>

\* __main__ in the container of thread t opens the code file and the config
\* file of its directory; the container runs to its end and container.wait
\* returns.
PoolContainerReads(t) ==
    /\ jobs[t].pc = "boot"
    /\ jobs' = [ jobs EXCEPT ![t].pc = "cleanup",
                             ![t].found = Some(StagedBy(exchange,
                                                        StagingDir(jobs[t].submission_id))) ]
    /\ UNCHANGED << streamVars, guardVars, snapVars, put_seen, orchVars, histVars, inspVars,
                    childVars, queueVars, fd_out, exchange >>

\* The finally clause on thread t: the container, then rmtree of temp_dir.
PoolCleanup(t) ==
    /\ jobs[t].pc = "cleanup"
    /\ exchange' = RemoveStaging(exchange, StagingDir(jobs[t].submission_id))
    /\ jobs' = [ jobs EXCEPT ![t].pc = "returned" ]
    /\ UNCHANGED << streamVars, guardVars, snapVars, put_seen, orchVars, histVars, inspVars,
                    childVars, queueVars, fd_out >>

PoolNext ==
    \E t \in Threads :
        \/ PoolStage(t)
        \/ PoolRun(t)
        \/ PoolContainerReads(t)
        \/ PoolCleanup(t)

PoolSpec == PoolInit /\ [][PoolNext]_vars

\* One request end to end, with the user statements that decide how and when
\* the container ends, and with the scheduling the host gives: the clock
\* advances, and every process but the user code gets to run.
LifecycleNext ==
    \/ OrchStep
    \/ MainBoot
    \/ MainPrint
    \/ ContainerDies
    \/ UserRaise
    \/ UserLoop
    \/ UserIgnoreSigterm
    \/ \E line \in RawLines : UserRawWrite(line)
    \/ WorkerStep
    \/ ChildCrash
    \/ InspectorStep
    \/ Tick

LifecycleSpec ==
    /\ Init
    /\ [][LifecycleNext]_vars
    /\ WF_vars(Tick)
    /\ WF_vars(OrchStep)
    /\ WF_vars(MainBoot)
    /\ WF_vars(MainPrint)
    /\ WF_vars(InspectorStep)
    /\ WF_vars(WorkerStep)

\* run_code_in_docker: how far a request has come.
Phase(pc) ==
    CASE pc = "stage" -> 0
      [] pc = "run" -> 1
      [] pc = "wait" -> 2
      [] pc \in { "kill", "parse" } -> 3
      [] pc = "cleanup_container" -> 4
      [] pc = "cleanup_staging" -> 5
      [] pc = "returned" -> 6
      [] OTHER -> 7

\* ------------------------------------------------------------------- claims
\* The CodeResults in existence: put on the queue, readable by the parent,
\* returned by universal_inspector.
QueuedResults ==
    { qbuf[i] : i \in 1..Len(qbuf) } \cup { pipe[i] : i \in 1..Len(pipe) }

CodeResults ==
    QueuedResults \cup { insp_result[i] : i \in 1..Len(insp_result) }

\* C1: after any sequence of write() calls on a LimitedStream of capacity C,
\* the accumulated text is at most C plus the marker long, and truncated is
\* true exactly when more than C characters were written in all.
C1_OutputBounded ==
    /\ Len(stream.buf) <= stream.limit_chars + Len(TRUNCATION_MARK)
    /\ stream.truncated <=> Len(written) > stream.limit_chars

\* C1 witness: a write that crossed the capacity of a partly filled stream.
C1_Witness ==
    /\ lastWrite # None
    /\ ~lastWrite[1].before.truncated
    /\ lastWrite[1].before.current_chars > 0
    /\ stream.truncated
    /\ Len(written) > stream.limit_chars

\* C2: a truncated LimitedStream holds exactly the first C characters written
\* followed by one marker, and a write made after truncation leaves the text
\* as it was.
C2_TruncatedText ==
    /\ stream.truncated =>
          stream.buf = Prefix(written, stream.limit_chars) \o TRUNCATION_MARK
    /\ (lastWrite # None /\ lastWrite[1].before.truncated) =>
          stream.buf = lastWrite[1].before.buf

\* C2 witness: a non-empty write on a stream that was already truncated.
C2_Witness ==
    /\ lastWrite # None
    /\ lastWrite[1].before.truncated
    /\ Len(lastWrite[1].text) > 0
    /\ stream.limit_chars > 0

\* C3: every result, of worker_process, of universal_inspector and of
\* run_code_in_docker, has success false when its error or system_error is set.
C3_ErrorMeansFailure ==
    /\ \A r \in CodeResults : r.error # None => r.success = FALSE
    /\ orch_result # None =>
          ((orch_result[1].error # None \/ orch_result[1].system_error # None)
              => orch_result[1].success = FALSE)

\* C4: no exception of the user code leaves worker_process, and every result it
\* puts on the queue is success with no error, or failure with an error.
C4_EngineOutcomes ==
    /\ escaped = None
    /\ \A r \in QueuedResults :
          \/ r.success = TRUE /\ r.error = None
          \/ r.success = FALSE /\ r.error # None

\* C5: when the user code was still running after the request's timeout T (and
\* the host killed nothing), the result returned is a failure that says Time
\* Limit Exceeded, with execution_time T and no variables.
C5_TimeLimitReported ==
    (orch_pc = "returned" /\ overran /\ ~host_killed) =>
        /\ orch_result # None
        /\ orch_result[1].success = FALSE
        /\ orch_result[1].error = Some(ERR_TLE)
        /\ orch_result[1].execution_time = Some(request.timeout)
        /\ orch_result[1].variables \in { None, Some({}) }

\* C6: once container.wait has exceeded its bound, the result of
\* run_code_in_docker is a failure whose system_error is set.
C6_ContainerTimeoutIsSystemError ==
    (wait_raised /\ orch_result # None) =>
        /\ orch_result[1].success = FALSE
        /\ orch_result[1].system_error # None

\* C7: run_code_in_docker never ends by raising, and when it has returned, the
\* removal of the container it obtained and of the staging directory it made
\* have both been attempted, and the result of its return statement stands.
C7_CleanupOnEveryPath ==
    /\ orch_pc # "raised"
    /\ orch_pc = "returned" =>
          /\ orch_result # None
          /\ has_container => remove_tried
          /\ staging_made => rmtree_tried

\* C7 witness: the container removal failed and the staging removal was still
\* attempted.
C7_Witness ==
    /\ orch_pc = "returned"
    /\ remove_tried
    /\ container = "exited"
    /\ rmtree_tried

\* C8: universal_inspector returns in the end, and the child is not running
\* when it has.
C8_InspectorReturns ==
    /\ <>(insp_pc = "returned")
    /\ [](insp_pc = "returned" => ~Alive)

\* C9: universal_inspector returns the time-limit result only after is_alive()
\* answered true, the queued result unchanged when the child had exited and the
\* queue was not empty, and the crashed result only when the child had exited
\* and the queue was empty; the two synthesized results differ in their error.
C9_ThreeOutcomes ==
    /\ TimeLimitResult(timeout_seconds).error # CrashedResult.error
    /\ insp_pc = "returned" =>
          /\ insp_result # None
          /\ alive_seen # None
          /\ alive_seen = Some(TRUE) =>
                /\ queue_seen = None
                /\ insp_result = Some(TimeLimitResult(timeout_seconds))
          /\ alive_seen = Some(FALSE) =>
                /\ queue_seen # None
                /\ queue_seen[1] # << >> => insp_result = Some(Head(queue_seen[1]))
                /\ queue_seen[1] = << >> => insp_result = Some(CrashedResult)
                /\ ~Alive

\* C9 witness: the child exited by itself leaving its result, and the parent
\* returned it.
C9_Witness ==
    /\ insp_pc = "returned"
    /\ alive_seen = Some(FALSE)
    /\ queue_seen # None
    /\ queue_seen[1] # << >>
    /\ insp_result = Some(Head(queue_seen[1]))
    /\ child_pc = "exited"

\* C10: whatever run_code_in_docker returns carries the request's
\* submission_id, and it returns a result on every path.
C10_SubmissionIdCarried ==
    /\ orch_result # None => orch_result[1].submission_id = request.submission_id
    /\ orch_pc = "returned" => orch_result # None
    /\ orch_pc # "raised"

\* C10 witness: the only line the container wrote was a JSON object with a
\* submission_id of its own, and it was parsed into the result.
C10_Witness ==
    /\ orch_pc = "returned"
    /\ fd_out = << FORGED_LINE >>
    /\ orch_result # None
    /\ orch_result[1].success = TRUE
    /\ orch_result[1].submission_id = request.submission_id

\* C11: a blacklist rule that cannot be used does not fail the run: a child that
\* ran to its end has put one result on the queue, nothing has left the
\* patching loop, and while the user code is compiled and executed the traps of
\* the usable rules are in place.
C11_UnusableRuleSkipped ==
    /\ child_pc = "exited" => nputs = 1
    /\ nputs = 0 => escaped = None
    /\ child_pc \in { "compile", "exec", "looping", "finally" } =>
          \A i \in 1..Len(blacklist) :
              blacklist[i].path \in ResolvablePaths => TrapOn(patched, blacklist[i].path) # None

\* C12: the user code never holds a binding to a denied module, whatever the
\* blacklist.
C12_DeniedModulesNeverBound == imported \cap DENIED_MODULES = { }

\* C13: once the user code has called a callable that a blacklist rule traps,
\* every result queued is a failure whose error text contains the rule's reason.
C13_ReasonReported ==
    invoked # None =>
        \A r \in QueuedResults :
            /\ r.success = FALSE
            /\ r.error # None
            /\ Contains(r.error[1], invoked[1])

\* C14: serialize_variables reports exactly min(max_vars, E) names, E the number
\* of bindings of the scope whose name neither starts with "__" nor is a plumbing
\* name, and none of the names it reports is an excluded one.
C14_SnapshotCount ==
    LET eligible == { i \in 1..Len(user_locals) :
                         /\ Prefix(user_locals[i].name, 2) # "__"
                         /\ user_locals[i].name \notin { "safe_import", "builtins", "sys" } }
    IN  /\ ~clean_vars.raised
        /\ Cardinality(clean_vars.names) = Min(max_vars, Cardinality(eligible))
        /\ \A n \in clean_vars.names :
              Prefix(n, 2) # "__" /\ n \notin { "safe_import", "builtins", "sys" }

\* C15: the deadline run_code_in_docker gives container.wait is strictly larger
\* than the one universal_inspector is called with inside that container, and
\* while both run the container's has more time left than the runner's.
C15_OuterDeadlineLarger ==
    /\ main_pc = "inspecting" => request.timeout + WAIT_GRACE > timeout_seconds
    /\ (orch_pc = "wait" /\ insp_pc = "join") => wait_left > join_left

\* C16: a request only moves forward through staged, container running,
\* completed or timed out or crashed, cleaned up; its container is launched at
\* most once; the result of its return statement is set once and is there when
\* it has returned; and it returns in the end and stays returned.
C16_RequestLifecycle ==
    /\ [][Phase(orch_pc') >= Phase(orch_pc)]_vars
    /\ [][container' = "running" =>
             (container = "running" \/ (container = "none" /\ orch_pc = "run"))]_vars
    /\ [][orch_result # None => orch_result' = orch_result]_vars
    /\ [](orch_pc = "returned" => orch_result # None)
    /\ [](Phase(orch_pc) <= 6)
    /\ <>[](orch_pc = "returned")

\* C16 witness: a request that went through a running container that timed out
\* and has returned.
C16_Witness ==
    /\ orch_pc = "returned"
    /\ wait_raised
    /\ remove_tried
    /\ orch_result # None

\* C17: the compile/execute step is left only into the finally clause (or by the
\* child being killed); the finally clause is left only with the result queued;
\* worker_process puts at most one result; and when it is over, tracing is
\* stopped, the streams are restored, one result is queued, and its output,
\* truncated, memory_peak_mb and execution_time are what was captured.
C17_FinallyAlwaysRuns ==
    /\ [][(child_pc \in { "compile", "exec", "looping" }
              /\ child_pc' \notin { "compile", "exec", "looping", "killed" })
             => child_pc' = "finally"]_vars
    /\ [][(child_pc = "finally" /\ child_pc' \notin { "finally", "killed" })
             => (child_pc' = "exiting" /\ nputs' = nputs + 1)]_vars
    /\ [](nputs <= 1)
    /\ [](child_pc = "exiting" =>
             /\ ~tracing
             /\ ~redirected
             /\ nputs = 1
             /\ QueuedResults = { result }
             /\ result.output = captured_output.buf
             /\ result.truncated = captured_output.truncated
             /\ result.memory_peak_mb # None
             /\ result.execution_time = Some(elapsed))

\* C17 witness: the user code raised after it had printed, and the result with
\* the partial output is queued.
C17_Witness ==
    /\ child_pc = "exiting"
    /\ result.error = Some(ERR_VALUE)
    /\ result.output # << >>
    /\ result \in QueuedResults
    /\ ~redirected

\* C18: when the container has finished and what it wrote is not one JSON object
\* with the required fields, the result is a failure with system_error set, and
\* its output is at most 1000 characters long.
C18_MalformedOutput ==
    LET usable == /\ Len(fd_out) = 1
                  /\ fd_out[1].kind = "json_obj"
                  /\ { "success", "output" } \subseteq DOMAIN fd_out[1].data
    IN  (has_container /\ ~wait_raised /\ orch_result # None /\ ~usable) =>
            /\ orch_result[1].success = FALSE
            /\ orch_result[1].system_error # None
            /\ Len(orch_result[1].output) <= EXCERPT_CHARS

\* C18 witness: the engine's line came with another line, the whole was longer
\* than the excerpt, and the result carries the first 1000 characters.
C18_Witness ==
    /\ orch_pc = "returned"
    /\ has_container
    /\ ~wait_raised
    /\ Len(fd_out) = 2
    /\ Len(LogText(fd_out)) > EXCERPT_CHARS
    /\ orch_result # None
    /\ orch_result[1].system_error = Some(ERR_INVALID_JSON)
    /\ Len(orch_result[1].output) = EXCERPT_CHARS

\* C19: while the container of a request has yet to read its staged files, they
\* are in the staging directory and are the ones the request wrote; and what a
\* container has read is what its own request staged.
C19_StagingIsolated ==
    \A t \in Threads :
        /\ jobs[t].pc \in { "run", "boot" } =>
              StagedBy(exchange, StagingDir(jobs[t].submission_id)) = t
        /\ jobs[t].found \in { None, Some(t) }

\* C20: when worker_process put its result while the parent's join still had
\* time left (and nothing killed the child from outside), universal_inspector
\* returns that result, and not the time-limit result.
C20_QueuedResultReturned ==
    (insp_pc = "returned" /\ put_seen # None /\ put_seen[1].left > 0 /\ ~host_killed) =>
        /\ insp_result = Some(put_seen[1].result)
        /\ insp_result # Some(TimeLimitResult(timeout_seconds))

====
